---- MODULE Spec2Model ----
(***************************************************************************)
(* A model of the markov-generator crate: the MarkovChain container        *)
(* (markov_chain/markov_chain.rs) with its Node, Edge and Action value     *)
(* types.  The chain is a plain single-owner structure, so the model has   *)
(* one action per public mutating operation, taken one call at a time.     *)
(*                                                                         *)
(* Option<T> is modelled as a sequence of length 0 (None) or 1 (Some(x)).  *)
(* Edge weights are exact multiples of one unit (a weight w stands for the *)
(* float w * unit, with unit a power of two, so sums and differences of    *)
(* the small weights used here are exact in f32).  A uniform draw r from   *)
(* [0, total) is modelled by the integer k with k <= r < k + 1: all the    *)
(* comparisons of the selection loop are against integer partial sums, so  *)
(* every r of that interval takes the same path as k.                      *)
(***************************************************************************)
EXTENDS Integers, Sequences, FiniteSets

VARIABLES
    nodes,          \* MarkovChain.nodes: Vec<Node>
    edges,          \* MarkovChain.edges: Vec<Edge>
    current_node,   \* MarkovChain.current_node: Option<u32>
    op,             \* the last call made on the chain, with its arguments
                    \* (and, for a removal, how many elements it dropped)
    ret             \* what that call returned (or that it panicked)

vars == <<nodes, edges, current_node, op, ret>>
chain == <<nodes, edges, current_node>>

(* ------------------------------ bounds --------------------------------- *)
MaxSize == 3        \* most nodes, edges and actions the chain holds together
MaxEdges == 2       \* longest edge sequence explored
MaxActions == 2     \* most actions held by all the nodes together

\* The inputs the operations are called with: the node ids of the tests and
\* of main; three of the (from, to) pairs of their edges (two edges out of
\* node 1, an edge and its reverse, a cycle, a node with incoming edges only);
\* weights of 0, 1 and 2 units; two actions (one built without a value, one
\* with).
NodeIds == {1, 2, 3}
EdgePairs == {<<1, 2>>, <<1, 3>>, <<3, 1>>}
Weights == {0, 1, 2}

(* ------------------------------ Option --------------------------------- *)
None == <<>>
Some(x) == <<x>>

(* ------------------------- MarkovChainError ---------------------------- *)
NodeDoesNotExistError == "NodeDoesNotExistError"
NodeHasNoEdgesError == "NodeHasNoEdgesError"
TransitionFailedError == "TransitionFailedError"
EdgeDoesNotExistError == "EdgeDoesNotExistError"
ActionDoesNotExistError == "ActionDoesNotExistError"
StuckError == "StuckError"

\* Result<T, MarkovChainError>, and the outcome of a call that never returns.
Ok(v) == [kind |-> "Ok", val |-> v, err |-> "none"]
Err(e) == [kind |-> "Err", val |-> <<>>, err |-> e]
Panicked == [kind |-> "Panic", val |-> <<>>, err |-> "none"]
Unit == <<>>

(* --------------------------- value types ------------------------------- *)
Action_new(id, value) ==
    [id |-> id, value |-> IF value = None THEN "null" ELSE value[1]]

Node_new(id, actions) ==
    [id |-> id, actions |-> IF actions = None THEN <<>> ELSE actions[1]]

Edge_new(from, to, weight) == [from |-> from, to |-> to, weight |-> weight]

ActionInputs == {Action_new(100, None), Action_new(200, Some("200.5"))}
SeqsUpTo(S, n) == UNION {[1..k -> S] : k \in 0..n}

ActionSeqs == SeqsUpTo(ActionInputs, MaxActions)
NodeInputs ==
    {Node_new(id, None) : id \in NodeIds}
        \cup {Node_new(id, Some(as)) : id \in NodeIds, as \in ActionSeqs}
EdgeInputs == {Edge_new(p[1], p[2], w) : p \in EdgePairs, w \in Weights}
\* add_node_actions is called with up to two actions, as in main.
ActionBatches == SeqsUpTo(ActionInputs, 2)
\* add_nodes is called with up to two nodes built without actions.
NodeBatches == SeqsUpTo({Node_new(id, None) : id \in NodeIds}, 2)

RECURSIVE TotalActions(_)
TotalActions(ns) ==
    IF ns = <<>> THEN 0 ELSE Len(Head(ns).actions) + TotalActions(Tail(ns))

\* The part of the unbounded state space that is explored.
InBounds(ns, es) ==
    /\ Len(es) <= MaxEdges
    /\ TotalActions(ns) <= MaxActions
    /\ Len(ns) + Len(es) + TotalActions(ns) <= MaxSize

(* ----------------------- iterator helpers ------------------------------ *)
\* Iterator::find over a sequence s: of the indices M whose elements satisfy
\* the predicate, the element at the first one.
find(s, M) ==
    IF M # {}
    THEN Some(s[CHOOSE i \in M : \A j \in M : i <= j])
    ELSE None

(* ----------------------------- lookups --------------------------------- *)
\* Mutant: the last node with the id is returned, not the first.
get_node_last(ns, node_id) ==
    IF \E i \in DOMAIN ns : ns[i].id = node_id
    THEN Some(ns[CHOOSE i \in DOMAIN ns :
                     ns[i].id = node_id
                         /\ \A j \in (i + 1)..Len(ns) : ns[j].id # node_id])
    ELSE None

get_node(ns, node_id) == find(ns, {i \in DOMAIN ns : ns[i].id = node_id})

\* Mutant: the last edge of the pair is returned, not the first.
get_edge_last(es, from_node_id, to_node_id) ==
    IF \E i \in DOMAIN es : es[i].from = from_node_id /\ es[i].to = to_node_id
    THEN Some(es[CHOOSE i \in DOMAIN es :
                     /\ es[i].from = from_node_id /\ es[i].to = to_node_id
                     /\ \A j \in (i + 1)..Len(es) :
                            ~(es[j].from = from_node_id /\ es[j].to = to_node_id)])
    ELSE None

get_edge(es, from_node_id, to_node_id) ==
    find(es, {i \in DOMAIN es :
                 es[i].from = from_node_id /\ es[i].to = to_node_id})

get_node_actions(ns, node_id) ==
    LET found == find(ns, {i \in DOMAIN ns : ns[i].id = node_id})
    IN  IF found = None THEN None ELSE Some(found[1].actions)

get_node_action(ns, node_id, action_id) ==
    LET found == find(ns, {i \in DOMAIN ns : ns[i].id = node_id})
    IN  IF found = None THEN None
        ELSE find(found[1].actions,
                  {i \in DOMAIN found[1].actions :
                      found[1].actions[i].id = action_id})

node_exists(ns, node_id) == \E i \in DOMAIN ns : ns[i].id = node_id

edge_exists(es, from_node_id, to_node_id) ==
    \E i \in DOMAIN es : es[i].from = from_node_id /\ es[i].to = to_node_id

\* Mutant: an edge counts as outgoing when either of its ends is the node.
get_node_edges_either_end(ns, es, node_id) ==
    IF ~node_exists(ns, node_id)
    THEN Err(NodeDoesNotExistError)
    ELSE Ok(SelectSeq(es, LAMBDA edge : edge.from = node_id \/ edge.to = node_id))

\* Mutant: the node is not looked up before its edges are collected.
get_node_edges_unchecked(ns, es, node_id) ==
    Ok(SelectSeq(es, LAMBDA edge : edge.from = node_id))

get_node_edges(ns, es, node_id) ==
    IF ~node_exists(ns, node_id)
    THEN Err(NodeDoesNotExistError)
    ELSE Ok(SelectSeq(es, LAMBDA edge : edge.from = node_id))

get_current_node == current_node

(* --------------------------- constructor ------------------------------- *)
\* MarkovChain::new(nodes, edges): the given sequences (empty when absent),
\* no current position.
new(ns, es) ==
    /\ nodes = (IF ns = None THEN <<>> ELSE ns[1])
    /\ edges = (IF es = None THEN <<>> ELSE es[1])
    /\ current_node = None
    /\ op = [name |-> "new"]
    /\ ret = Ok(Unit)

\* The chains a client can construct within the bounds: the node sequences
\* of length k that hold at most a actions, built node by node.
RECURSIVE NodeSeqsOf(_, _)
NodeSeqsOf(k, a) ==
    IF k = 0 THEN {<<>>}
    ELSE UNION {{<<node>> \o s : s \in NodeSeqsOf(k - 1, a - Len(node.actions))}
                   : node \in {n \in NodeInputs : Len(n.actions) <= a}}

NodeSeqs ==
    UNION {NodeSeqsOf(k, IF MaxActions < MaxSize - k THEN MaxActions
                         ELSE MaxSize - k) : k \in 0..MaxSize}
EdgeSeqs == SeqsUpTo(EdgeInputs, MaxEdges)

Init ==
    \E ns \in {None} \cup {Some(s) : s \in NodeSeqs} :
        \E es \in {None} \cup {Some(s) : s \in EdgeSeqs} :
            /\ InBounds(IF ns = None THEN <<>> ELSE ns[1],
                        IF es = None THEN <<>> ELSE es[1])
            /\ new(ns, es)

(* ---------------------------- mutators --------------------------------- *)
add_node(node) ==
    /\ nodes' = Append(nodes, node)
    /\ op' = [name |-> "add_node", node |-> node]
    /\ ret' = Ok(Unit)
    /\ UNCHANGED <<edges, current_node>>

add_nodes(ns) ==
    /\ nodes' = nodes \o ns
    /\ op' = [name |-> "add_nodes", nodes |-> ns]
    /\ ret' = Ok(Unit)
    /\ UNCHANGED <<edges, current_node>>

add_edge(edge) ==
    /\ edges' = Append(edges, edge)
    /\ op' = [name |-> "add_edge", edge |-> edge]
    /\ ret' = Ok(Unit)
    /\ UNCHANGED <<nodes, current_node>>

\* Mutant: only the first node with the id is removed.
retain_nodes_first_only(ns, node_id) ==
    IF \E i \in DOMAIN ns : ns[i].id = node_id
    THEN LET k == CHOOSE i \in DOMAIN ns :
                    ns[i].id = node_id /\ \A j \in 1..(i - 1) : ns[j].id # node_id
         IN  SubSeq(ns, 1, k - 1) \o SubSeq(ns, k + 1, Len(ns))
    ELSE ns

retain_nodes(ns, node_id) == SelectSeq(ns, LAMBDA node : node.id # node_id)

\* Mutant: removing the node the chain stands on clears the position.
remove_node_resets(node_id) ==
    /\ nodes' = retain_nodes(nodes, node_id)
    /\ op' = [name |-> "remove_node", node_id |-> node_id,
              removed |-> Len(nodes) - Len(nodes')]
    /\ ret' = Ok(Unit)
    /\ current_node' = IF current_node = Some(node_id) THEN None ELSE current_node
    /\ UNCHANGED edges

\* Mutant: the edges that touch the removed node are removed with it.
remove_node_cascade(node_id) ==
    /\ nodes' = retain_nodes(nodes, node_id)
    /\ edges' = SelectSeq(edges, LAMBDA edge :
                              edge.from # node_id /\ edge.to # node_id)
    /\ op' = [name |-> "remove_node", node_id |-> node_id,
              removed |-> Len(nodes) - Len(nodes')]
    /\ ret' = Ok(Unit)
    /\ UNCHANGED current_node

remove_node(node_id) ==
    /\ nodes' = retain_nodes(nodes, node_id)
    /\ op' = [name |-> "remove_node", node_id |-> node_id,
              removed |-> Len(nodes) - Len(nodes')]
    /\ ret' = Ok(Unit)
    /\ UNCHANGED <<edges, current_node>>

\* Mutant: the edge between the two nodes is dropped in both directions.
retain_edges_both_directions(es, from_node_id, to_node_id) ==
    SelectSeq(es, LAMBDA edge :
                  /\ ~(edge.from = from_node_id /\ edge.to = to_node_id)
                  /\ ~(edge.from = to_node_id /\ edge.to = from_node_id))

retain_edges(es, from_node_id, to_node_id) ==
    SelectSeq(es, LAMBDA edge :
                  ~(edge.from = from_node_id /\ edge.to = to_node_id))

remove_edge(from_node_id, to_node_id) ==
    /\ edges' = retain_edges(edges, from_node_id, to_node_id)
    /\ op' = [name |-> "remove_edge", from_node_id |-> from_node_id,
              to_node_id |-> to_node_id, removed |-> Len(edges) - Len(edges')]
    /\ ret' = Ok(Unit)
    /\ UNCHANGED <<nodes, current_node>>

\* Mutant: the last node with the id gets the actions, not the first.
extend_node_actions_last(ns, node_id, actions) ==
    [i \in DOMAIN ns |->
        IF /\ ns[i].id = node_id
           /\ \A j \in (i + 1)..Len(ns) : ns[j].id # node_id
        THEN [ns[i] EXCEPT !.actions = @ \o actions]
        ELSE ns[i]]

\* iter_mut().find(..) then extend_from_slice: the first node with the id
\* gets the actions appended; no node with the id, nothing happens.
extend_node_actions(ns, node_id, actions) ==
    IF node_exists(ns, node_id)
    THEN LET k == CHOOSE i \in DOMAIN ns :
                    ns[i].id = node_id /\ \A j \in 1..(i - 1) : ns[j].id # node_id
         IN  [ns EXCEPT ![k].actions = @ \o actions]
    ELSE ns

add_node_actions(node_id, actions) ==
    /\ nodes' = extend_node_actions(nodes, node_id, actions)
    /\ op' = [name |-> "add_node_actions", node_id |-> node_id,
              actions |-> actions]
    /\ ret' = Ok(Unit)
    /\ UNCHANGED <<edges, current_node>>

(* ------------------------ current position ----------------------------- *)
\* Mutant: the position is assigned before the node is looked up.
set_current_node_unchecked(node_id) ==
    /\ op' = [name |-> "set_current_node", node_id |-> node_id]
    /\ current_node' = Some(node_id)
    /\ ret' = IF find(nodes, {i \in DOMAIN nodes : nodes[i].id = node_id}) # None
              THEN Ok(Unit)
              ELSE Err(NodeDoesNotExistError)
    /\ UNCHANGED <<nodes, edges>>

set_current_node(node_id) ==
    /\ op' = [name |-> "set_current_node", node_id |-> node_id]
    /\ IF find(nodes, {i \in DOMAIN nodes : nodes[i].id = node_id}) # None
       THEN /\ current_node' = Some(node_id)
            /\ ret' = Ok(Unit)
       ELSE /\ ret' = Err(NodeDoesNotExistError)
            /\ UNCHANGED current_node
    /\ UNCHANGED <<nodes, edges>>

\* get_node_edges called by a client: a read, the chain is borrowed immutably.
call_get_node_edges(node_id) ==
    /\ op' = [name |-> "get_node_edges", node_id |-> node_id]
    /\ ret' = get_node_edges(nodes, edges, node_id)
    /\ UNCHANGED chain

(* ---------------------------- transition ------------------------------- *)
\* for edge in edges.iter() { total_weight += edge.weight; }
RECURSIVE total_weight(_)
total_weight(es) ==
    IF es = <<>> THEN 0 ELSE Head(es).weight + total_weight(Tail(es))

\* Mutant: the range is low..=high, its upper end is drawn too.
gen_range_inclusive(low, high) == low..high

\* rng.gen_range(low..high): the draws r with low <= r < high, each standing
\* for the values of [r, r + 1).  rand panics on an empty range (high <= low).
gen_range(low, high) == low..(high - 1)

\* The selection loop: the first edge with random_weight < edge.weight, the
\* weight of every edge passed over subtracted from random_weight on the way.
\* Mutant: the loop compares with <= instead of <.
RECURSIVE select_edge_le(_, _)
select_edge_le(es, random_weight) ==
    IF es = <<>> THEN Err(TransitionFailedError)
    ELSE IF random_weight <= Head(es).weight THEN Ok(Head(es).to)
    ELSE select_edge_le(Tail(es), random_weight - Head(es).weight)

\* Mutant: the weight of an edge passed over is not subtracted.
RECURSIVE select_edge_no_subtract(_, _)
select_edge_no_subtract(es, random_weight) ==
    IF es = <<>> THEN Err(TransitionFailedError)
    ELSE IF random_weight < Head(es).weight THEN Ok(Head(es).to)
    ELSE select_edge_no_subtract(Tail(es), random_weight)

RECURSIVE select_edge(_, _)
select_edge(es, random_weight) ==
    IF es = <<>> THEN Err(TransitionFailedError)
    ELSE IF random_weight < Head(es).weight THEN Ok(Head(es).to)
    ELSE select_edge(Tail(es), random_weight - Head(es).weight)

\* Mutant: a failed call clears the current position.
returned_clears(result, position) ==
    [ret |-> result,
     current_node |-> IF result.kind = "Err" THEN None ELSE position]

\* What a call of next leaves behind: the value returned (or the panic) and
\* the current position.
returned(result, position) == [ret |-> result, current_node |-> position]

\* Mutant: the error of get_node_edges is passed on to the caller.
transition_outcomes_propagates(ns, es, cur) ==
    LET current_node_id == cur[1]
        found == get_node_edges(ns, es, current_node_id)
    IN  IF found.kind = "Err"
        THEN {returned(found, cur)}
        ELSE IF found.val = <<>>
        THEN {returned(Err(NodeHasNoEdgesError), cur)}
        ELSE LET range == gen_range(0, total_weight(found.val))
             IN  IF range = {}
                 THEN {returned(Panicked, cur)}
                 ELSE {LET selected == select_edge(found.val, random_weight)
                       IN  IF selected.kind = "Ok"
                           THEN returned(Ok(Unit), Some(selected.val))
                           ELSE returned(selected, cur)
                         : random_weight \in range}

\* Mutant: a node without outgoing edges is reported with StuckError.
transition_outcomes_stuck(ns, es, cur) ==
    LET current_node_id == cur[1]
        found == get_node_edges(ns, es, current_node_id)
    IN  IF found.kind = "Err"
        THEN {returned(Err(NodeHasNoEdgesError), cur)}
        ELSE IF found.val = <<>>
        THEN {returned(Err(StuckError), cur)}
        ELSE LET range == gen_range(0, total_weight(found.val))
             IN  IF range = {}
                 THEN {returned(Panicked, cur)}
                 ELSE {LET selected == select_edge(found.val, random_weight)
                       IN  IF selected.kind = "Ok"
                           THEN returned(Ok(Unit), Some(selected.val))
                           ELSE returned(selected, cur)
                         : random_weight \in range}

\* next once the current position is known to be set (cur = Some(id)): the
\* outgoing edges, the draw and the selection loop; one outcome per draw.
transition_outcomes(ns, es, cur) ==
    LET current_node_id == cur[1]
        found == get_node_edges(ns, es, current_node_id)
    IN  IF found.kind = "Err"
        THEN {returned(Err(NodeHasNoEdgesError), cur)}
        ELSE IF found.val = <<>>
        THEN {returned(Err(NodeHasNoEdgesError), cur)}
        ELSE LET range == gen_range(0, total_weight(found.val))
             IN  IF range = {}
                 THEN {returned(Panicked, cur)}
                 ELSE {LET selected == select_edge(found.val, random_weight)
                       IN  IF selected.kind = "Ok"
                           THEN returned(Ok(Unit), Some(selected.val))
                           ELSE returned(selected, cur)
                         : random_weight \in range}

\* Mutant: the check for a missing current position is left out, and the
\* unwrap of None panics.
next_outcomes_unwrap(ns, es, cur) ==
    IF cur = None
    THEN {returned(Panicked, cur)}
    ELSE transition_outcomes(ns, es, cur)

\* The outcomes of next on a chain.
next_outcomes(ns, es, cur) ==
    IF cur = None
    THEN {returned(Err(NodeDoesNotExistError), cur)}
    ELSE transition_outcomes(ns, es, cur)

next ==
    \E outcome \in next_outcomes(nodes, edges, current_node) :
        /\ op' = [name |-> "next"]
        /\ ret' = outcome.ret
        /\ current_node' = outcome.current_node
        /\ UNCHANGED <<nodes, edges>>

(* -------------------------- specification ------------------------------ *)
\* A panic unwinds out of the caller: no further call is made on the chain.
Running == ret.kind # "Panic"

Next ==
    \/ \E node \in NodeInputs :
        Running /\ InBounds(Append(nodes, node), edges) /\ add_node(node)
    \/ \E ns \in NodeBatches :
        Running /\ InBounds(nodes \o ns, edges) /\ add_nodes(ns)
    \/ \E edge \in EdgeInputs :
        Running /\ InBounds(nodes, Append(edges, edge)) /\ add_edge(edge)
    \/ \E node_id \in NodeIds : Running /\ remove_node(node_id)
    \/ \E pair \in EdgePairs : Running /\ remove_edge(pair[1], pair[2])
    \/ \E node_id \in NodeIds, actions \in ActionBatches :
        /\ Running
        /\ InBounds(extend_node_actions(nodes, node_id, actions), edges)
        /\ add_node_actions(node_id, actions)
    \/ \E node_id \in NodeIds : Running /\ set_current_node(node_id)
    \/ \E node_id \in NodeIds : Running /\ call_get_node_edges(node_id)
    \/ Running /\ next

Spec == Init /\ [][Next]_vars

\* The chain under the operations other than remove_node.
NextNoRemove ==
    \/ \E node \in NodeInputs :
        Running /\ InBounds(Append(nodes, node), edges) /\ add_node(node)
    \/ \E ns \in NodeBatches :
        Running /\ InBounds(nodes \o ns, edges) /\ add_nodes(ns)
    \/ \E edge \in EdgeInputs :
        Running /\ InBounds(nodes, Append(edges, edge)) /\ add_edge(edge)
    \/ \E pair \in EdgePairs : Running /\ remove_edge(pair[1], pair[2])
    \/ \E node_id \in NodeIds, actions \in ActionBatches :
        /\ Running
        /\ InBounds(extend_node_actions(nodes, node_id, actions), edges)
        /\ add_node_actions(node_id, actions)
    \/ \E node_id \in NodeIds : Running /\ set_current_node(node_id)
    \/ \E node_id \in NodeIds : Running /\ call_get_node_edges(node_id)
    \/ Running /\ next

SpecNoRemove == Init /\ [][NextNoRemove]_vars

(* ======================================================================= *)
(*            Serialization of Edge, Action and Node (serde)               *)
(* ======================================================================= *)

(* The derived Serialize and Deserialize of the three types, with the JSON *)
(* text kept as its tokens.  An f32 is Finite (a number of weight units),  *)
(* Nan or Infinite (v is the sign); a Value is kept as its canonical JSON   *)
(* text, as in Action_new.                                                  *)
SerdeError == "serde_json::Error"

F32(class, v) == [class |-> class, v |-> v]
F32Inputs ==
    {F32("Finite", v) : v \in -1..4}
        \cup {F32("Nan", 0), F32("Infinite", 1), F32("Infinite", -1)}

\* f32's PartialEq: NaN is equal to nothing, itself included.
f32_eq(a, b) == a.class # "Nan" /\ b.class # "Nan" /\ a = b
\* The derived PartialEq of Edge compares field by field.
Edge_eq(a, b) == a.from = b.from /\ a.to = b.to /\ f32_eq(a.weight, b.weight)

Json(t, n, s) == [t |-> t, n |-> n, s |-> s]

serialize_u32(n) == Json("number", n, "")
\* serde_json writes a finite float as a number and NaN and the infinities,
\* which JSON has no literal for, as null.
serialize_f32(x) ==
    IF x.class = "Finite" THEN Json("number", x.v, "") ELSE Json("null", 0, "")
serialize_Value(v) ==
    IF v = "null" THEN Json("null", 0, "") ELSE Json("value", 0, v)

deserialize_u32(j) ==
    IF j.t = "number" /\ j.n >= 0 THEN Ok(j.n) ELSE Err(SerdeError)
\* null is not a number: an f32 field does not accept it.
deserialize_f32(j) ==
    IF j.t = "number" THEN Ok(F32("Finite", j.n)) ELSE Err(SerdeError)
\* A Value accepts every JSON text.
deserialize_Value(j) == IF j.t = "null" THEN Ok("null") ELSE Ok(j.s)

Edge_to_string(edge) ==
    [from   |-> serialize_u32(edge.from),
     to     |-> serialize_u32(edge.to),
     weight |-> serialize_f32(edge.weight)]

Edge_from_str(j) ==
    LET from   == deserialize_u32(j.from)
        to     == deserialize_u32(j.to)
        weight == deserialize_f32(j.weight)
    IN  IF from.kind = "Ok" /\ to.kind = "Ok" /\ weight.kind = "Ok"
        THEN Ok([from |-> from.val, to |-> to.val, weight |-> weight.val])
        ELSE Err(SerdeError)

Action_to_string(action) ==
    [id |-> serialize_u32(action.id), value |-> serialize_Value(action.value)]

Action_from_str(j) ==
    LET id    == deserialize_u32(j.id)
        value == deserialize_Value(j.value)
    IN  IF id.kind = "Ok" /\ value.kind = "Ok"
        THEN Ok([id |-> id.val, value |-> value.val])
        ELSE Err(SerdeError)

Node_to_string(node) ==
    [id      |-> serialize_u32(node.id),
     actions |-> [i \in DOMAIN node.actions |->
                     Action_to_string(node.actions[i])]]

Node_from_str(j) ==
    LET id      == deserialize_u32(j.id)
        actions == [i \in DOMAIN j.actions |-> Action_from_str(j.actions[i])]
    IN  IF id.kind = "Ok" /\ \A i \in DOMAIN actions : actions[i].kind = "Ok"
        THEN Ok([id      |-> id.val,
                 actions |-> [i \in DOMAIN actions |-> actions[i].val]])
        ELSE Err(SerdeError)

\* The values that are serialized: every constructor, every class of f32.
SerdeEdges ==
    {Edge_new(from, to, w) : from \in NodeIds, to \in NodeIds, w \in F32Inputs}
SerdeActions ==
    {Action_new(id, value) :
        id \in {100, 200}, value \in {None, Some("200.5"), Some("\"on\"")}}
SerdeNodes ==
    {Node_new(id, None) : id \in NodeIds}
        \cup {Node_new(id, Some(as)) :
                 id \in NodeIds, as \in SeqsUpTo(SerdeActions, 2)}

\* Nothing of the chain takes part: the chain stays the empty one.
SerdeInit == new(None, None)

round_trip_edge(edge) ==
    /\ op' = [name |-> "round_trip_edge", value |-> edge]
    /\ ret' = Edge_from_str(Edge_to_string(edge))
    /\ UNCHANGED chain

round_trip_action(action) ==
    /\ op' = [name |-> "round_trip_action", value |-> action]
    /\ ret' = Action_from_str(Action_to_string(action))
    /\ UNCHANGED chain

round_trip_node(node) ==
    /\ op' = [name |-> "round_trip_node", value |-> node]
    /\ ret' = Node_from_str(Node_to_string(node))
    /\ UNCHANGED chain

SerdeNext ==
    \/ \E edge \in SerdeEdges : round_trip_edge(edge)
    \/ \E action \in SerdeActions : round_trip_action(action)
    \/ \E node \in SerdeNodes : round_trip_node(node)

SpecSerde == SerdeInit /\ [][SerdeNext]_vars

(* ======================================================================= *)
(*                              Properties                                 *)
(* ======================================================================= *)

\* Helpers of the properties, stated without the model's own lookups.
HasNode(ns, id) == \E i \in DOMAIN ns : ns[i].id = id
OutgoingIdx(es, id) == {i \in DOMAIN es : es[i].from = id}
\* The elements of s at the indices M, in the order of s.
Nth(M, k) == CHOOSE i \in M : Cardinality({j \in M : j <= i}) = k
Picked(s, M) == [k \in 1..Cardinality(M) |-> s[Nth(M, k)]]

(* C1: set_current_node(id) with an id that no node carries returns           *)
(* NodeDoesNotExistError and leaves current_node, the nodes and the edges    *)
(* as they were.                                                             *)
C1_SetAbsentFailsUnchanged ==
    [][(op'.name = "set_current_node" /\ ~HasNode(nodes, op'.node_id))
         => /\ ret' = Err(NodeDoesNotExistError)
            /\ current_node' = current_node
            /\ nodes' = nodes
            /\ edges' = edges]_vars

\* A failed set_current_node on a chain that holds nodes and edges and
\* stands on a node: the earlier position is still there.
C1_Witness ==
    /\ op.name = "set_current_node"
    /\ ~HasNode(nodes, op.node_id)
    /\ ret = Err(NodeDoesNotExistError)
    /\ current_node # None
    /\ nodes # <<>>
    /\ edges # <<>>

(* C2: every call of next returns to its caller, with success or with one   *)
(* of NodeDoesNotExistError, NodeHasNoEdgesError, TransitionFailedError     *)
(* (weights are finite and non-negative in every state of the model).       *)
C2_NextAlwaysReturns ==
    op.name = "next"
        => ret \in {Ok(Unit), Err(NodeDoesNotExistError),
                    Err(NodeHasNoEdgesError), Err(TransitionFailedError)}

(* C3: a chain starts without a current position, whatever nodes and edges  *)
(* it is constructed with, and next on a chain without a current position   *)
(* returns NodeDoesNotExistError.                                           *)
C3_NextWithoutPosition ==
    [][/\ op.name = "new" => current_node = None
       /\ (op'.name = "next" /\ current_node = None)
            => ret' = Err(NodeDoesNotExistError)]_vars

\* next has failed on a chain that holds nodes and edges and no position.
C3_Witness ==
    /\ op.name = "next"
    /\ ret = Err(NodeDoesNotExistError)
    /\ current_node = None
    /\ nodes # <<>>
    /\ edges # <<>>

(* C4: when the current node is in the node list and no edge leaves it,     *)
(* next returns NodeHasNoEdgesError; edges that point to it or leave other  *)
(* nodes do not count.                                                      *)
C4_NoOutgoingEdges ==
    [][(/\ op'.name = "next"
        /\ current_node # None
        /\ HasNode(nodes, current_node[1])
        /\ OutgoingIdx(edges, current_node[1]) = {})
         => ret' = Err(NodeHasNoEdgesError)]_vars

\* next has failed on a present node that an edge points to and none leaves.
C4_Witness ==
    /\ op.name = "next"
    /\ ret = Err(NodeHasNoEdgesError)
    /\ current_node # None
    /\ HasNode(nodes, current_node[1])
    /\ OutgoingIdx(edges, current_node[1]) = {}
    /\ \E i \in DOMAIN edges : edges[i].to = current_node[1]

(* C5: a call of next never changes the nodes or the edges, and a call that *)
(* returns an error leaves current_node as it was too.                      *)
C5_NextFrame ==
    [][op'.name = "next"
         => /\ nodes' = nodes
            /\ edges' = edges
            /\ ret'.kind = "Err" => current_node' = current_node]_vars

\* next has failed on a chain that stands on a node.
C5_Witness ==
    /\ op.name = "next"
    /\ ret.kind = "Err"
    /\ current_node # None
    /\ nodes # <<>>
    /\ edges # <<>>

(* C6: once current_node is a concrete id it is one in every later state,   *)
(* and current_node changes only in a successful set_current_node or a      *)
(* successful next.                                                         *)
C6_PositionStaysConcrete ==
    [][/\ current_node # None => current_node' # None
       /\ current_node' # current_node
            => /\ op'.name \in {"set_current_node", "next"}
               /\ ret' = Ok(Unit)]_vars

\* The node the chain stands on has been removed, and the position is kept.
C6_Witness ==
    /\ op.name = "remove_node"
    /\ current_node = Some(op.node_id)
    /\ op.removed > 0
    /\ ~HasNode(nodes, current_node[1])

(* C7: from a current node that is present and whose outgoing edges have a  *)
(* positive total weight, the positions a successful next can lead to are   *)
(* exactly the destinations of its outgoing edges of positive weight: each  *)
(* of them is the result of some draw, and a successful next lands on one   *)
(* of them.                                                                 *)
PositiveTargets(es, id) ==
    {es[i].to : i \in {j \in OutgoingIdx(es, id) : es[j].weight > 0}}

C8_GetNodeEdges ==
    [][op'.name = "get_node_edges"
         => /\ UNCHANGED chain
            /\ ret' = IF HasNode(nodes, op'.node_id)
                      THEN Ok(Picked(edges, OutgoingIdx(edges, op'.node_id)))
                      ELSE Err(NodeDoesNotExistError)]_vars

\* get_node_edges has returned the two edges of a present node in order.
C8_Witness ==
    /\ op.name = "get_node_edges"
    /\ ret.kind = "Ok"
    /\ Len(ret.val) = 2
    /\ ret.val[1] # ret.val[2]
    /\ ret.val = edges

\* get_node_edges has failed for an absent node that an edge leaves.
C8_WitnessAbsent ==
    /\ op.name = "get_node_edges"
    /\ ret = Err(NodeDoesNotExistError)
    /\ OutgoingIdx(edges, op.node_id) # {}

(* C9, as claimed: after add_node(n) the lookup get_node(n.id) returns n,   *)
(* and after add_nodes(ns) every node of ns is returned by get_node on its  *)
(* id, in every chain state.                                                *)
C9_AddedNodeIsFound ==
    [][/\ op'.name = "add_node"
            => get_node(nodes', op'.node.id) = Some(op'.node)
       /\ op'.name = "add_nodes"
            => \A k \in DOMAIN op'.nodes :
                   get_node(nodes', op'.nodes[k].id) = Some(op'.nodes[k])]_vars

(* C9, amended: after add_node(n) the lookup get_node(n.id) returns the     *)
(* first node of the sequence that carries n.id: n when no node of the      *)
(* chain carried the id before the call, and otherwise the earlier node,    *)
(* which is the one get_node returned before.  After add_nodes(ns) the      *)
(* same holds of every node of ns, the first node of ns with the id being   *)
(* returned when the chain held none.                                       *)
FirstWith(ns, id) ==
    ns[CHOOSE i \in DOMAIN ns :
            ns[i].id = id /\ \A j \in DOMAIN ns : ns[j].id = id => i <= j]

C9_AddedNodeIsFoundUnlessShadowed ==
    [][/\ op'.name = "add_node"
            => get_node(nodes', op'.node.id) =
                   IF HasNode(nodes, op'.node.id)
                   THEN Some(FirstWith(nodes, op'.node.id))
                   ELSE Some(op'.node)
       /\ op'.name = "add_nodes"
            => \A k \in DOMAIN op'.nodes :
                   get_node(nodes', op'.nodes[k].id) =
                       IF HasNode(nodes, op'.nodes[k].id)
                       THEN Some(FirstWith(nodes, op'.nodes[k].id))
                       ELSE Some(FirstWith(op'.nodes, op'.nodes[k].id))]_vars

\* add_node has appended a node whose id an earlier node with other actions
\* carries: get_node returns the earlier node.
C9_Witness ==
    /\ op.name = "add_node"
    /\ nodes[Len(nodes)] = op.node
    /\ get_node(nodes, op.node.id) # Some(op.node)
    /\ \E i \in 1..(Len(nodes) - 1) :
          nodes[i].id = op.node.id /\ nodes[i].actions # op.node.actions

(* C10: after remove_node(id) no node has the id (get_node finds none and   *)
(* node_exists is false), the nodes with another id stay in their order,   *)
(* and remove_node of an absent id changes nothing.                         *)
C10_RemoveNode ==
    [][op'.name = "remove_node"
         => /\ get_node(nodes', op'.node_id) = None
            /\ ~node_exists(nodes', op'.node_id)
            /\ \A i \in DOMAIN nodes' : nodes'[i].id # op'.node_id
            /\ nodes' = Picked(nodes, {i \in DOMAIN nodes :
                                          nodes[i].id # op'.node_id})
            /\ ~HasNode(nodes, op'.node_id) => UNCHANGED chain]_vars

\* remove_node has dropped two nodes with the same id and kept another.
C10_Witness ==
    /\ op.name = "remove_node"
    /\ op.removed >= 2
    /\ nodes # <<>>

(* C11, as claimed: after add_edge(e) the lookup get_edge(e.from, e.to)     *)
(* returns e, with e's weight, in every chain state.                        *)
C11_AddedEdgeIsFound ==
    [][op'.name = "add_edge"
         => get_edge(edges', op'.edge.from, op'.edge.to) = Some(op'.edge)]_vars

(* C11, amended: after add_edge(e) the lookup get_edge(e.from, e.to)        *)
(* returns the first edge of the sequence with e's (from, to) pair: e when  *)
(* the chain held no edge of that pair before the call, and otherwise the   *)
(* earlier edge, with the earlier edge's weight.                            *)
PairIdx(es, from, to) == {i \in DOMAIN es : es[i].from = from /\ es[i].to = to}

C11_AddedEdgeIsFoundUnlessShadowed ==
    [][op'.name = "add_edge"
         => get_edge(edges', op'.edge.from, op'.edge.to) =
                IF PairIdx(edges, op'.edge.from, op'.edge.to) # {}
                THEN Some(edges[Nth(PairIdx(edges, op'.edge.from,
                                            op'.edge.to), 1)])
                ELSE Some(op'.edge)]_vars

\* add_edge has appended an edge of a pair that an earlier edge with another
\* weight has: get_edge returns the earlier edge.
C11_Witness ==
    /\ op.name = "add_edge"
    /\ edges[Len(edges)] = op.edge
    /\ get_edge(edges, op.edge.from, op.edge.to) # Some(op.edge)
    /\ \E i \in 1..(Len(edges) - 1) :
          /\ edges[i].from = op.edge.from
          /\ edges[i].to = op.edge.to
          /\ edges[i].weight # op.edge.weight

(* C12: after remove_edge(from, to) no edge has the pair (get_edge finds    *)
(* none and edge_exists is false), every edge of another pair, the reverse  *)
(* edge (to, from) included, stays in its order, and the nodes and          *)
(* current_node are unchanged.                                              *)
C12_RemoveEdge ==
    [][op'.name = "remove_edge"
         => /\ get_edge(edges', op'.from_node_id, op'.to_node_id) = None
            /\ ~edge_exists(edges', op'.from_node_id, op'.to_node_id)
            /\ PairIdx(edges', op'.from_node_id, op'.to_node_id) = {}
            /\ edges' = Picked(edges,
                             DOMAIN edges \ PairIdx(edges, op'.from_node_id,
                                                    op'.to_node_id))
            /\ nodes' = nodes
            /\ current_node' = current_node]_vars

\* remove_edge has dropped an edge and kept the reverse edge.
C12_Witness ==
    /\ op.name = "remove_edge"
    /\ op.removed >= 1
    /\ PairIdx(edges, op.to_node_id, op.from_node_id) # {}

\* remove_edge has dropped two edges of the same pair.
C12_WitnessDuplicates ==
    /\ op.name = "remove_edge"
    /\ op.removed >= 2

(* C13: add_node_actions(node_id, actions) appends the actions, in order,   *)
(* to the action list of the first node with the id and changes no other    *)
(* node (a later node with the id included), no edge and not current_node;  *)
(* with no node of that id the chain is unchanged.  Afterwards              *)
(* get_node_actions(node_id) returns the old list followed by the actions.  *)
C13_AddNodeActions ==
    [][op'.name = "add_node_actions"
         => LET M == {i \in DOMAIN nodes : nodes[i].id = op'.node_id}
            IN  /\ edges' = edges
                /\ current_node' = current_node
                /\ M = {} => nodes' = nodes
                /\ M # {} =>
                     /\ DOMAIN nodes' = DOMAIN nodes
                     /\ \A i \in DOMAIN nodes :
                          /\ nodes'[i].id = nodes[i].id
                          /\ nodes'[i].actions =
                               IF i = Nth(M, 1)
                               THEN nodes[i].actions \o op'.actions
                               ELSE nodes[i].actions
                     /\ get_node_actions(nodes', op'.node_id) =
                          Some(nodes[Nth(M, 1)].actions \o op'.actions)]_vars

\* add_node_actions has appended an action to a node that held one already.
C13_Witness ==
    /\ op.name = "add_node_actions"
    /\ op.actions # <<>>
    /\ \E i \in DOMAIN nodes :
          /\ nodes[i].id = op.node_id
          /\ Len(nodes[i].actions) > Len(op.actions)
          /\ nodes[i].actions[1] # nodes[i].actions[2]
          /\ get_node_actions(nodes, op.node_id) = Some(nodes[i].actions)

\* add_node_actions has left a later node with the same id as it was.
C13_WitnessLaterNode ==
    /\ op.name = "add_node_actions"
    /\ op.actions # <<>>
    /\ \E i \in DOMAIN nodes, j \in DOMAIN nodes :
          /\ i < j
          /\ nodes[i].id = op.node_id
          /\ nodes[j].id = op.node_id
          /\ nodes[i].actions = op.actions
          /\ nodes[j].actions = <<>>

(* C14: for every constructed Node, Edge and Action (any id, any action     *)
(* list, any weight the constructor accepts, any structured value),         *)
(* serializing the value and deserializing the result succeeds and gives a  *)
(* value equal to the original.                                             *)
C14_RoundTrip ==
    /\ op.name = "round_trip_edge"
         => ret.kind = "Ok" /\ Edge_eq(ret.val, op.value)
    /\ op.name \in {"round_trip_action", "round_trip_node"}
         => ret.kind = "Ok" /\ ret.val = op.value

\* An edge with a finite weight has come back equal to the original.
C14_FiniteRoundTrip ==
    /\ op.name = "round_trip_edge"
    /\ op.value.weight.class = "Finite"
    /\ ret = Ok(op.value)

(* C15: after remove_node(id) on the current position id, get_current_node  *)
(* still returns id, and every later next fails with NodeHasNoEdgesError    *)
(* (not NodeDoesNotExistError) and leaves the position, also when edges     *)
(* with from = id are still there, until a node with the id is added again  *)
(* or set_current_node succeeds on another id.                              *)
Stale == current_node # None /\ ~HasNode(nodes, current_node[1])

C15_NextOnRemovedPosition ==
    [][/\ (op'.name = "remove_node" /\ current_node = Some(op'.node_id))
            => get_current_node' = Some(op'.node_id)
       /\ (Stale /\ op'.name = "next")
            => /\ ret' = Err(NodeHasNoEdgesError)
               /\ current_node' = current_node
               /\ Stale'
       /\ (Stale /\ ~Stale')
            => \/ /\ op'.name \in {"add_node", "add_nodes"}
                  /\ current_node' = current_node
                  /\ HasNode(nodes', current_node[1])
               \/ /\ op'.name = "set_current_node"
                  /\ ret' = Ok(Unit)
                  /\ current_node' # current_node]_vars

\* next has failed on a position whose node was removed while edges still
\* leave it.
C15_Witness ==
    /\ op.name = "next"
    /\ ret = Err(NodeHasNoEdgesError)
    /\ Stale
    /\ OutgoingIdx(edges, current_node[1]) # {}
    /\ total_weight(Picked(edges, OutgoingIdx(edges, current_node[1]))) > 0

(* C16: for a draw r in [0, total weight) over the outgoing edges e1..en    *)
(* of the current position, in insertion order, the loop of next selects    *)
(* the first edge ek with r < w1 + ... + wk, the one whose interval         *)
(* [w1 + ... + w(k-1), w1 + ... + wk) holds r; the number of draws that     *)
(* lead to a destination is the weight of the edges to it, in whatever      *)
(* order the edges are stored.                                              *)
RECURSIVE WeightSum(_, _)
WeightSum(es, k) == IF k = 0 THEN 0 ELSE WeightSum(es, k - 1) + es[k].weight

Outgoing == Picked(edges, OutgoingIdx(edges, current_node[1]))

Orders(s) ==
    {[i \in DOMAIN s |-> s[p[i]]] :
        p \in {q \in [DOMAIN s -> DOMAIN s] :
                  \A i, j \in DOMAIN s : q[i] = q[j] => i = j}}

C17_PositionOnNode == current_node # None => HasNode(nodes, current_node[1])

(* C18: with exact arithmetic and non-negative weights next never returns   *)
(* TransitionFailedError: for every draw r in [0, total weight) over the    *)
(* outgoing edges of an existing current node the loop selects an edge      *)
(* before the end of the edges.                                             *)
C18_NoTransitionFailed ==
    /\ ret # Err(TransitionFailedError)
    /\ \A outcome \in next_outcomes(nodes, edges, current_node) :
          outcome.ret # Err(TransitionFailedError)
    /\ (current_node # None /\ HasNode(nodes, current_node[1]))
          => \A r \in 0..(WeightSum(Outgoing, Len(Outgoing)) - 1) :
                select_edge(Outgoing, r).kind = "Ok"

\* next has moved from node 1 although its last outgoing edge has weight 0:
\* the draw was below the weight of the first edge.
C18_Witness ==
    /\ op.name = "next"
    /\ ret = Ok(Unit)
    /\ HasNode(nodes, 1)
    /\ edges = <<Edge_new(1, 2, 1), Edge_new(1, 3, 0)>>
    /\ current_node = Some(2)

(* C19: remove_node(id) changes only the node sequence: the edge sequence   *)
(* is unchanged, so the edges whose from or to is the removed id stay,      *)
(* get_edge and edge_exists still report them, and current_node is          *)
(* unchanged.                                                               *)
C19_RemoveNodeKeepsEdges ==
    [][op'.name = "remove_node"
         => /\ edges' = edges
            /\ current_node' = current_node
            /\ \A i \in DOMAIN edges :
                 (edges[i].from = op'.node_id \/ edges[i].to = op'.node_id)
                    => /\ edge_exists(edges', edges[i].from, edges[i].to)
                       /\ get_edge(edges', edges[i].from, edges[i].to) =
                            Some(edges[Nth(PairIdx(edges, edges[i].from,
                                                   edges[i].to), 1)])]_vars

\* remove_node has removed a node that an edge leaves and an edge enters.
C19_Witness ==
    /\ op.name = "remove_node"
    /\ op.removed >= 1
    /\ \E i, j \in DOMAIN edges :
          /\ edges[i].from = op.node_id
          /\ edges[j].to = op.node_id
          /\ get_edge(edges, edges[i].from, edges[i].to) # None
          /\ edge_exists(edges, edges[j].from, edges[j].to)

(* C20: no operation returns EdgeDoesNotExistError, ActionDoesNotExistError *)
(* or StuckError: set_current_node and get_node_edges fail only with        *)
(* NodeDoesNotExistError, next only with NodeDoesNotExistError,             *)
(* NodeHasNoEdgesError or TransitionFailedError, and an absent entity in    *)
(* get_node, get_edge, get_node_actions and get_node_action is not found    *)
(* (None), not an error.                                                    *)
C20_ErrorsReturned ==
    /\ ret.err \notin {EdgeDoesNotExistError, ActionDoesNotExistError,
                       StuckError}
    /\ ret.kind = "Err"
         => \/ /\ op.name \in {"set_current_node", "get_node_edges"}
               /\ ret.err = NodeDoesNotExistError
            \/ /\ op.name = "next"
               /\ ret.err \in {NodeDoesNotExistError, NodeHasNoEdgesError,
                               TransitionFailedError}
    /\ \A id \in NodeIds :
         /\ ~HasNode(nodes, id)
              => /\ get_node(nodes, id) = None
                 /\ get_node_actions(nodes, id) = None
                 /\ \A action \in ActionInputs :
                       get_node_action(nodes, id, action.id) = None
         /\ \A i \in DOMAIN nodes, action \in ActionInputs :
              (/\ nodes[i].id = id
               /\ \A j \in 1..(i - 1) : nodes[j].id # id
               /\ \A k \in DOMAIN nodes[i].actions :
                     nodes[i].actions[k].id # action.id)
                 => get_node_action(nodes, id, action.id) = None
         /\ \A to \in NodeIds :
              PairIdx(edges, id, to) = {} => get_edge(edges, id, to) = None

\* next has failed on a node that is there and has no outgoing edge.
C20_Witness ==
    /\ op.name = "next"
    /\ ret = Err(NodeHasNoEdgesError)
    /\ current_node # None
    /\ HasNode(nodes, current_node[1])
    /\ edges # <<>>
    /\ get_edge(edges, current_node[1], 2) = None

====
